---- MODULE Spec2Model ----
(***************************************************************************)
(* Agent execution engine of backend/app/services/agent/service.py:        *)
(* one session of AgentExecutionService, its execution task               *)
(* (_start_execution / _execute_step) and the command handler              *)
(* (handle_command), interleaved at the suspension points of the asyncio   *)
(* event loop.                                                             *)
(*                                                                         *)
(* Steps are numbered 1..NumSteps here (list index + 1 of the source).     *)
(* An action of the execution task is the code between two suspension      *)
(* points (browser call, oracle call, sleep, gate wait); a command        *)
(* is one call of handle_command, which changes the session before its     *)
(* only await (_emit_event) and is therefore atomic.  No event callback is *)
(* registered on the service anywhere in the repository, so _emit_event    *)
(* itself never suspends there; its loop over registered callbacks is      *)
(* modelled on its own (SpecEmit).                                         *)
(***************************************************************************)
EXTENDS Integers, Sequences, FiniteSets, TLC

\* ---------------------------------------------------------------- bounds
NumSteps == 2
MaxRetries == 1
MaxCmds == 2
MaxPauseResume == 4
MaxFaults == 1
MaxCallbacks == 2
MaxEmits == 2

Steps == 1..NumSteps

\* ---------------------------------------------------------------- types
AgentState ==
    {"idle", "initializing", "planning", "executing", "waiting", "recovering",
     "completed", "failed", "paused", "cancelled"}

StepStatus == {"pending", "running", "completed", "failed", "skipped", "retrying"}

TerminalStates == {"completed", "failed", "cancelled"}

TerminalStepStatus == {"completed", "failed", "skipped"}

StepType ==
    {"navigate", "click", "type", "scroll", "wait", "screenshot", "hover", "assert",
     "narrate"}

StepTypeCycle == <<"navigate", "click", "wait", "narrate", "assert">>

\* plan.steps as the step_type of each step; the plan of most runs is
\* navigate, click, wait, narrate, assert, ...
Plans == [Steps -> StepType]

DefaultPlan == [s \in Steps |-> StepTypeCycle[((s - 1) % Len(StepTypeCycle)) + 1]]

\* verify_state answers ready without consulting the oracle for these types
NoVerifyTypes == {"narrate", "wait", "screenshot"}

\* _step_to_browser_action returns None for these types
NoActionTypes == {"narrate", "assert"}

\* plan.milestones: milestone m closes at step MilestoneEnd[m]; one milestone
\* closes at the first step, one at the last
MilestoneIds == {1, 2}

MilestoneEnd == [m \in MilestoneIds |-> IF m = 1 THEN 1 ELSE NumSteps]

Ev(t, r) == [type |-> t, ref |-> r]

\* the ids under which two sessions are served side by side
SessionKeys == {"a", "b"}

\* an id that create_session has not registered yet
NoSession ==
    [registered |-> FALSE, state |-> "idle", status |-> [s \in Steps |-> "pending"],
     events |-> <<>>, current_step_index |-> 1, pc |-> "none", i |-> 0]

\* lines 62-68: the registries start empty
NoSessions == [k \in SessionKeys |-> NoSession]

NoPauseEvents == [k \in SessionKeys |-> FALSE]

\* no call of _emit_event is in progress
NotEmitting == [pc |-> "idle", event |-> Ev("none", 0)]

\* params of a command that carry no step_index
NoParams == [given |-> FALSE, step_index |-> 0]

VARIABLES
    cfg,                 \* session.config, settings and the request (fixed per run)
    state,               \* session.state
    status,              \* step_executions[s].status
    retries,             \* step_executions[s].retries
    current_step_index,  \* session.current_step_index (1-based here)
    completed_at,        \* session.completed_at is not None
    error,               \* session.error is not None
    events,              \* session.events
    gate,                \* _pause_events[session_id] is set
    pc,                  \* where the execution task is suspended
    i,                   \* loop variable of `for i, step in enumerate(plan.steps)`
    browser,             \* the browser handle: "none", "acquired", "released"
    stream,              \* the frame-streaming task: "none", "running", "crashed", "cancelled"
    faults,              \* number of failed before-screenshots and not-ready first verdicts so far
    ncmds,               \* number of commands handled so far
    ret,                 \* what the last call of handle_command returned
    callbacks,           \* _event_callbacks: what each callback does when invoked
    invoked,             \* the callbacks invoked for the event being emitted, in order
    emitting,            \* the call of _emit_event in progress: where it is, and its event
    verification,        \* what verify_state returned in the current attempt, in order
    total_steps,         \* session.total_steps
    response,            \* what create_session returned: "none" until it is called
    executed,            \* the browser actions execute_action was called with in the current attempt
    sessions,            \* _sessions: the session registered under each id, when two are served
    pause_events         \* _pause_events: the pause gate registered under each id

vars ==
    <<cfg, state, status, retries, current_step_index, completed_at, error,
      events, gate, pc, i, browser, stream, faults, ncmds, ret, callbacks, invoked,
      emitting, verification, executed, total_steps, response, sessions, pause_events>>

\* step_type of plan step s
StepTypeOf(s) == cfg.plan[s]

HasBrowserAction(s) == StepTypeOf(s) \notin NoActionTypes

\* lines 368-395: the BrowserAction of step s, None for narrate and assert; the
\* target of the step goes to its url (navigate) or to its selector
step_to_browser_action(s) ==
    IF StepTypeOf(s) \in NoActionTypes
    THEN "none"
    ELSE [action_type |-> StepTypeOf(s),
          target_as |-> IF StepTypeOf(s) = "navigate" THEN "url" ELSE "selector"]

\* ---------------------------------------------------------------- helpers
\* number of events of type t about r in the log
CountEv(log, t, r) == Cardinality({k \in 1..Len(log) : log[k] = Ev(t, r)})

HasEv(log, t) == \E k \in 1..Len(log) : log[k].type = t

RECURSIVE MilestoneEvents(_, _)
\* _check_milestone: one FEATURE_MILESTONE per milestone whose end_step is this order
MilestoneEvents(ms, order) ==
    IF ms = {} THEN <<>>
    ELSE LET m == CHOOSE x \in ms : \A y \in ms : x <= y
         IN  (IF MilestoneEnd[m] = order THEN <<Ev("FEATURE_MILESTONE", m)>> ELSE <<>>)
             \o MilestoneEvents(ms \ {m}, order)

CompletionEventsMilestoneFirst(s) ==
    MilestoneEvents(MilestoneIds, s) \o <<Ev("STEP_COMPLETED", s)>>

\* lines 319-328: what a completed attempt of step s emits: STEP_COMPLETED, then
\* the milestones that close at s
CompletionEvents(s) ==
    <<Ev("STEP_COMPLETED", s)>> \o MilestoneEvents(MilestoneIds, s)

\* the streaming task created at line 166 runs at the first suspension of the
\* execution task (the first iteration always suspends): it streams when its
\* import at line 420 resolves and dies on it otherwise
StreamStarted == IF cfg.imports_ok THEN "running" ELSE "crashed"

\* ---------------------------------------------------------------- initial state
\* What is fixed for a run: AgentSessionConfig (enable_recovery,
\* max_retries_per_step, auto_screenshot; pause_between_steps_ms keeps its
\* positive default), settings.OPENAI_API_KEY being set (has_api_key), the
\* request's auto_start, get_plan finding the plan (plan_found), and whether
\* the function-level imports `from ..api.websocket import ...` (lines 420,
\* 456) resolve where the service is deployed (imports_ok).  Two fields fix
\* the environment of a run: oracle_down, the oracle raises on every call, and
\* browser_ok, every call of the browser service succeeds; where they are
\* FALSE each call may fail or not.
ConfigsOf(plans) ==
    {c \in [enable_recovery : BOOLEAN,
            max_retries_per_step : 0..MaxRetries,
            auto_screenshot : BOOLEAN,
            has_api_key : BOOLEAN,
            auto_start : BOOLEAN,
            plan_found : BOOLEAN,
            imports_ok : BOOLEAN,
            oracle_down : BOOLEAN,
            browser_ok : BOOLEAN,
            plan : plans] : c.oracle_down => c.has_api_key}

\* the configurations and environments of a session of the default plan
Configs == ConfigsOf({DefaultPlan})

\* the environment left open: each call of the oracle and of the browser
\* service may fail or not (the runs where all or none fail are among these)
OpenConfigs == {c \in Configs : ~c.oracle_down /\ ~c.browser_ok}

\* AgentExecutionService.__init__: empty registries; the fields of the session
\* hold the defaults of AgentSession until create_session registers it
InitService ==
    /\ state = "idle"
    /\ status = [s \in Steps |-> "pending"]
    /\ retries = [s \in Steps |-> 0]
    /\ current_step_index = 1
    /\ completed_at = FALSE
    /\ error = FALSE
    /\ events = <<>>
    /\ gate = FALSE
    /\ pc = "absent"
    /\ i = 0
    /\ browser = "none"
    /\ stream = "none"
    /\ faults = 0
    /\ ncmds = 0
    /\ ret = FALSE
    /\ callbacks = <<>>
    /\ invoked = <<>>
    /\ emitting = NotEmitting
    /\ verification = <<>>
    /\ executed = <<>>
    /\ total_steps = 0
    /\ response = "none"
    /\ sessions = NoSessions
    /\ pause_events = NoPauseEvents

Init ==
    /\ cfg \in OpenConfigs
    /\ InitService

\* every configuration and environment
InitLoop ==
    /\ cfg \in Configs
    /\ InitService

Registered == pc # "absent"

\* ---------------------------------------------------------------- create_session
create_sessionAlwaysStarts ==
    /\ pc = "absent"
    /\ response = "none"
    /\ cfg.plan_found
    /\ response' = "success"
    /\ state' = "idle"
    /\ status' = [s \in Steps |-> "pending"]
    /\ retries' = [s \in Steps |-> 0]
    /\ total_steps' = NumSteps
    /\ gate' = TRUE
    /\ events' = Append(events, Ev("SESSION_CREATED", 0))
    /\ pc' = "created"
    /\ UNCHANGED <<cfg, sessions, pause_events, callbacks, invoked, emitting, verification, executed, current_step_index,
                   completed_at, error, i, browser, stream, faults, ncmds, ret>>

create_sessionGateClosed ==
    /\ pc = "absent"
    /\ response = "none"
    /\ cfg.plan_found
    /\ response' = "success"
    /\ state' = "idle"
    /\ status' = [s \in Steps |-> "pending"]
    /\ retries' = [s \in Steps |-> 0]
    /\ total_steps' = NumSteps
    /\ gate' = FALSE
    /\ events' = Append(events, Ev("SESSION_CREATED", 0))
    /\ pc' = IF cfg.auto_start THEN "created" ELSE "none"
    /\ UNCHANGED <<cfg, sessions, pause_events, callbacks, invoked, emitting, verification, executed, current_step_index,
                   completed_at, error, i, browser, stream, faults, ncmds, ret>>

\* lines 93-138: one call of create_session.  When get_plan finds no plan the
\* response is an error and no session is registered (lines 96-100); otherwise
\* the session is registered with one pending record per plan step, its gate
\* is set, SESSION_CREATED is emitted and, with auto_start, the execution task
\* is created
create_session ==
    /\ pc = "absent"
    /\ response = "none"
    /\ IF ~cfg.plan_found
       THEN /\ response' = "error"
            /\ UNCHANGED <<state, status, retries, total_steps, gate, events, pc>>
       ELSE /\ response' = "success"
            /\ state' = "idle"
            /\ status' = [s \in Steps |-> "pending"]
            /\ retries' = [s \in Steps |-> 0]
            /\ total_steps' = NumSteps
            /\ gate' = TRUE
            /\ events' = Append(events, Ev("SESSION_CREATED", 0))
            /\ pc' = IF cfg.auto_start THEN "created" ELSE "none"
    /\ UNCHANGED <<cfg, sessions, pause_events, callbacks, invoked, emitting, verification, executed, current_step_index,
                   completed_at, error, i, browser, stream, faults, ncmds, ret>>

\* ---------------------------------------------------------------- step loop
\* lines 187-195: after the loop
LoopEnd(j, st) ==
    /\ i' = j
    /\ pc' = "cleanup"
    /\ IF st = "executing"
       THEN /\ state' = "completed"
            /\ completed_at' = TRUE
            /\ events' = Append(events, Ev("EXECUTION_COMPLETED", 0))
       ELSE /\ state' = st
            /\ UNCHANGED <<completed_at, events>>
    /\ UNCHANGED <<status, current_step_index, verification, executed>>

\* lines 181-182 and 227-240: the loop enters _execute_step for step j
BeginStep(j, st) ==
    /\ i' = j
    /\ current_step_index' = j
    /\ state' = st
    /\ status' = [status EXCEPT ![j] = "running"]
    /\ events' = Append(events, Ev("STEP_STARTED", j))
    /\ pc' = "pre"
    /\ verification' = <<>>
    /\ executed' = <<>>
    /\ UNCHANGED completed_at

\* line 173: the loop leaves on a cancelled or failed session
LoopBreaks(st) == st \in {"cancelled", "failed"}

\* lines 172-182, iteration j with session state st: break, block on the gate,
\* `continue` on a paused session, or run the step
LoopTop(j, st) ==
    IF j > NumSteps \/ LoopBreaks(st)
    THEN LoopEnd(j, st)
    ELSE IF ~gate
         THEN /\ pc' = "gate"
              /\ i' = j
              /\ state' = st
              /\ UNCHANGED <<status, current_step_index, completed_at, events,
                             verification, executed>>
         ELSE IF st = "paused"
              THEN LoopEnd(NumSteps + 1, st)
              ELSE BeginStep(j, st)

\* lines 141-158: the task starts
StartExecution ==
    /\ pc = "created"
    /\ state' = "initializing"
    /\ events' = Append(events, Ev("EXECUTION_STARTED", 0))
    /\ pc' = "acquiring"
    /\ UNCHANGED <<cfg, sessions, pause_events, total_steps, response, callbacks, invoked, emitting, verification, executed, status, retries, current_step_index, completed_at, error, gate,
                   i, browser, stream, faults, ncmds, ret>>

\* lines 160-170 then the first iteration: the browser session is acquired
AcquireBrowser ==
    /\ pc = "acquiring"
    /\ browser' = "acquired"
    /\ stream' = StreamStarted
    /\ LoopTop(1, "executing")
    /\ UNCHANGED <<cfg, sessions, pause_events, total_steps, response, callbacks, invoked, emitting, retries, error, gate, faults, ncmds, ret>>

AcquireFailsNoStamp ==
    /\ pc = "acquiring"
    /\ ~cfg.browser_ok
    /\ state' = "failed"
    /\ error' = TRUE
    /\ events' = Append(events, Ev("EXECUTION_FAILED", 0))
    /\ pc' = "done"
    /\ UNCHANGED <<cfg, sessions, pause_events, total_steps, response, callbacks, invoked, emitting, verification, executed, status, retries, current_step_index, completed_at, gate, i,
                   browser, stream, faults, ncmds, ret>>

\* lines 197-207 and 209-219: browser_service.create_session raised
AcquireFails ==
    /\ pc = "acquiring"
    /\ ~cfg.browser_ok
    /\ state' = "failed"
    /\ error' = TRUE
    /\ completed_at' = TRUE
    /\ events' = Append(events, Ev("EXECUTION_FAILED", 0))
    /\ pc' = "done"
    /\ UNCHANGED <<cfg, sessions, pause_events, total_steps, response, callbacks, invoked, emitting, verification, executed, status, retries, current_step_index, gate, i, browser, stream,
                   faults, ncmds, ret>>

\* line 176 returns after the gate was set while the task was blocked on it;
\* lines 178-182
WakeFromGate ==
    /\ pc = "woken"
    /\ IF state = "paused" THEN LoopTop(i + 1, state) ELSE BeginStep(i, state)
    /\ UNCHANGED <<cfg, sessions, pause_events, total_steps, response, callbacks, invoked, emitting, retries, error, gate, browser, stream, faults, ncmds, ret>>

\* lines 184-185 then the next iteration
NextIteration ==
    /\ pc = "between"
    /\ LoopTop(i + 1, state)
    /\ UNCHANGED <<cfg, sessions, pause_events, total_steps, response, callbacks, invoked, emitting, retries, error, gate, browser, stream, faults, ncmds, ret>>

\* lines 209-219: the streaming task is cancelled and awaited, which re-raises
\* what it died of; only then is the browser session closed
Cleanup ==
    /\ pc = "cleanup"
    /\ pc' = "done"
    /\ stream' = IF stream = "crashed" THEN "crashed" ELSE "cancelled"
    /\ browser' = IF stream = "crashed" THEN browser ELSE "released"
    /\ UNCHANGED <<cfg, sessions, pause_events, total_steps, response, callbacks, invoked, emitting, verification, executed, state, status, retries, current_step_index, completed_at, error,
                   events, gate, i, faults, ncmds, ret>>

\* ---------------------------------------------------------------- _execute_step
\* line 346: another attempt is due
CanRetryOffByOne(s) == retries[s] <= cfg.max_retries_per_step /\ cfg.enable_recovery

CanRetryWithoutRecovery(s) == retries[s] < cfg.max_retries_per_step

CanRetry(s) == retries[s] < cfg.max_retries_per_step /\ cfg.enable_recovery

StepExceptionNoCount(s, ev) ==
    IF CanRetry(s)
    THEN /\ retries' = retries
         /\ status' = [status EXCEPT ![s] = "retrying"]
         /\ events' = Append(ev, Ev("STEP_RETRYING", s))
         /\ pc' = "backoff"
    ELSE /\ retries' = retries
         /\ status' = [status EXCEPT ![s] = "failed"]
         /\ events' = Append(ev, Ev("STEP_FAILED", s))
         /\ pc' = "between"

\* lines 341-366: the except branch of _execute_step for step s, entered with
\* event log ev; after STEP_FAILED the call returns to the loop (line 184)
StepException(s, ev) ==
    IF CanRetry(s)
    THEN /\ retries' = [retries EXCEPT ![s] = @ + 1]
         /\ status' = [status EXCEPT ![s] = "retrying"]
         /\ events' = Append(ev, Ev("STEP_RETRYING", s))
         /\ pc' = "backoff"
    ELSE /\ retries' = retries
         /\ status' = [status EXCEPT ![s] = "failed"]
         /\ events' = Append(ev, Ev("STEP_FAILED", s))
         /\ pc' = "between"

\* the oracle is consulted by verify_state (lines 486-491)
OracleConsulted(s) == cfg.has_api_key /\ StepTypeOf(s) \notin NoVerifyTypes

\* what a call of the oracle gives (lines 500-543): an exception (network or
\* parse error), or an answer with ready and recovery_action
OracleAnswers ==
    IF cfg.oracle_down THEN {"raise"}
    ELSE {"raise", "ready", "not_ready", "not_ready_recover"}

\* lines 500-547: the verdict verify_state makes of the oracle's answer; an
\* exception is answered ready (line 545-547)
verify_state(answer) == IF answer = "raise" THEN "ready" ELSE answer

\* verdicts of verify_state for step s
Verdicts(s) ==
    IF OracleConsulted(s) /\ faults < MaxFaults
    THEN {verify_state(a) : a \in OracleAnswers}
    ELSE {"ready"}

\* what take_screenshot gives (line 258): an image, None, or an exception
Screenshots ==
    IF faults < MaxFaults /\ ~cfg.browser_ok THEN {"image", "none", "raise"} ELSE {"image"}

\* lines 255-296: the before-screenshot and the verification of one attempt
VerifyState ==
    /\ pc = "pre"
    /\ \E shot \in (IF cfg.auto_screenshot THEN Screenshots ELSE {"off"}) :
         IF shot = "raise"
         THEN StepException(i, events) /\ faults' = faults + 1 /\ UNCHANGED verification
         ELSE IF shot = "image" /\ cfg.enable_recovery
              THEN \E v \in Verdicts(i) :
                     LET ev == Append(events, Ev("STATE_VERIFIED", i)) IN
                     /\ faults' = IF v = "ready" THEN faults ELSE faults + 1
                     /\ verification' = Append(verification, v)
                     /\ IF v = "ready"
                        THEN /\ events' = ev
                             /\ pc' = "acting"
                             /\ UNCHANGED <<status, retries>>
                        ELSE IF v = "not_ready_recover"
                             THEN /\ events' = Append(ev, Ev("RECOVERY_STARTED", i))
                                  /\ pc' = "recovering"
                                  /\ UNCHANGED <<status, retries>>
                             ELSE StepException(i, ev)
              ELSE /\ pc' = "acting"
                   /\ faults' = IF shot = "none" THEN faults + 1 ELSE faults
                   /\ UNCHANGED <<status, retries, events, verification>>
    /\ UNCHANGED <<cfg, sessions, pause_events, total_steps, response, callbacks, invoked, emitting, executed, state, current_step_index, completed_at, error, gate, i, browser,
                   stream, ncmds, ret>>

\* lines 549-643 and 285-294: the recovery procedure ends
Recover ==
    /\ pc = "recovering"
    /\ \E ok \in BOOLEAN :
         LET ev == Append(events, Ev("RECOVERY_COMPLETED", i)) IN
         IF ok
         THEN /\ events' = ev
              /\ pc' = "reverify"
              /\ UNCHANGED <<status, retries>>
         ELSE StepException(i, ev)
    /\ UNCHANGED <<cfg, sessions, pause_events, total_steps, response, callbacks, invoked, emitting, verification, executed, state, current_step_index, completed_at, error, gate, i, browser,
                   stream, faults, ncmds, ret>>

\* what take_screenshot gives after a recovery (line 287)
ScreenshotsAfterRecovery ==
    IF cfg.browser_ok THEN {"image"} ELSE {"image", "none", "raise"}

\* what verify_state returns after a recovery (line 290)
VerdictsAfterRecovery(s) ==
    IF OracleConsulted(s) THEN {verify_state(a) : a \in OracleAnswers} ELSE {"ready"}

\* lines 286-292: after a successful recovery, a new screenshot and, when there
\* is one, one more verdict
ReVerify ==
    /\ pc = "reverify"
    /\ \E shot \in ScreenshotsAfterRecovery :
         IF shot = "raise"
         THEN StepException(i, events) /\ UNCHANGED verification
         ELSE IF shot = "image"
              THEN \E v \in VerdictsAfterRecovery(i) :
                     /\ verification' = Append(verification, v)
                     /\ IF v = "ready"
                        THEN pc' = "acting" /\ UNCHANGED <<status, retries, events>>
                        ELSE StepException(i, events)
              ELSE pc' = "acting" /\ UNCHANGED <<status, retries, events, verification>>
    /\ UNCHANGED <<cfg, sessions, pause_events, total_steps, response, callbacks, invoked, emitting, executed, state, current_step_index, completed_at, error,
                   gate, i, browser, stream, faults, ncmds, ret>>

\* a call of the browser service is made at lines 298-313: the action, or the
\* after-screenshot (screenshot_after keeps its default, True)
CallsBrowser(s) == HasBrowserAction(s) \/ cfg.auto_screenshot

\* lines 298-339: the action, the post-wait and the after-screenshot of one
\* attempt; on success the step is completed, its milestones are notified and
\* _broadcast_step_frame is entered, whose import at line 456 raises when it
\* does not resolve
ExecuteAction ==
    /\ pc = "acting"
    /\ executed' = IF HasBrowserAction(i)
                   THEN Append(executed, step_to_browser_action(i))
                   ELSE executed
    /\ \E ok \in (IF cfg.browser_ok \/ ~CallsBrowser(i) THEN {TRUE} ELSE BOOLEAN) :
         IF ~ok
         THEN StepException(i, events)
         ELSE LET ev == events \o CompletionEvents(i)
              IN  IF cfg.imports_ok
                  THEN /\ status' = [status EXCEPT ![i] = "completed"]
                       /\ events' = ev
                       /\ pc' = "post"
                       /\ UNCHANGED retries
                  ELSE StepException(i, ev)
    /\ UNCHANGED <<cfg, sessions, pause_events, total_steps, response, callbacks, invoked, emitting, verification, state, current_step_index, completed_at, error,
                   gate, i, browser, stream, faults, ncmds, ret>>

\* lines 451-478: _broadcast_step_frame returns, and with it _execute_step
BroadcastDone ==
    /\ pc = "post"
    /\ pc' = "between"
    /\ UNCHANGED <<cfg, sessions, pause_events, total_steps, response, callbacks, invoked, emitting, verification, executed, state, status, retries, current_step_index, completed_at, error,
                   events, gate, i, browser, stream, faults, ncmds, ret>>

\* lines 356-357 and 227-240: the backoff is over, _execute_step is entered again
RetryStep ==
    /\ pc = "backoff"
    /\ status' = [status EXCEPT ![i] = "running"]
    /\ events' = Append(events, Ev("STEP_STARTED", i))
    /\ pc' = "pre"
    /\ verification' = <<>>
    /\ executed' = <<>>
    /\ UNCHANGED <<cfg, sessions, pause_events, total_steps, response, callbacks, invoked, emitting, state, retries, current_step_index, completed_at, error, gate, i,
                   browser, stream, faults, ncmds, ret>>

\* ---------------------------------------------------------------- handle_command
SessionIds == {"sid", "unknown"}

Commands == {"start", "pause", "resume", "stop", "skip_step", "retry_step"}

\* params of SKIP_STEP: no step_index, or one from below to above the range
SkipParams == {NoParams} \cup [given : {TRUE}, step_index : 0..(NumSteps + 1)]

\* line 681: params.get("step_index", session.current_step_index)
SkipTarget(p) == IF p.given THEN p.step_index ELSE current_step_index

\* asyncio.Event.set(): a task blocked in wait() is made runnable
SetGate ==
    /\ gate' = TRUE
    /\ pc' = IF pc = "gate" THEN "woken" ELSE pc

\* lines 646-648: the session is looked up in the registry
Known(sid) == Registered /\ sid = "sid"

\* lines 652-659
Pause ==
    /\ state' = "paused"
    /\ gate' = FALSE
    /\ events' = Append(events, Ev("EXECUTION_PAUSED", 0))
    /\ UNCHANGED <<status, completed_at, pc>>

\* lines 661-668
Resume ==
    /\ state' = "executing"
    /\ SetGate
    /\ events' = Append(events, Ev("EXECUTION_RESUMED", 0))
    /\ UNCHANGED <<status, completed_at>>

\* lines 670-678
Stop ==
    /\ state' = "cancelled"
    /\ SetGate
    /\ completed_at' = TRUE
    /\ events' = Append(events, Ev("EXECUTION_CANCELLED", 0))
    /\ UNCHANGED status

SkipInRangeInclusive(k) == 1 <= k /\ k <= NumSteps + 1

\* line 682: the index names a step record
SkipInRange(k) == 1 <= k /\ k <= NumSteps

\* lines 680-689
SkipStep(k) ==
    /\ status' = [status EXCEPT ![k] = "skipped"]
    /\ events' = Append(events, Ev("STEP_SKIPPED", k))
    /\ UNCHANGED <<state, completed_at, gate, pc>>

ReturnsNoLookup(sid, c, p) ==
    \/ c \in {"pause", "resume", "stop"}
    \/ c = "skip_step" /\ SkipInRange(SkipTarget(p))

\* lines 645-691: what handle_command(sid, c, params) returns
Returns(sid, c, p) ==
    /\ Known(sid)
    /\ \/ c \in {"pause", "resume", "stop"}
       \/ c = "skip_step" /\ SkipInRange(SkipTarget(p))

\* lines 645-691: one call handle_command(sid, c, params)
Handle(sid, c, p) ==
    /\ ret' = Returns(sid, c, p)
    /\ ncmds' = ncmds + 1
    /\ IF ~Returns(sid, c, p)
       THEN UNCHANGED <<state, status, completed_at, events, gate, pc>>
       ELSE CASE c = "pause" -> Pause
              [] c = "resume" -> Resume
              [] c = "stop" -> Stop
              [] c = "skip_step" -> SkipStep(SkipTarget(p))
    /\ UNCHANGED <<cfg, sessions, pause_events, total_steps, response, callbacks, invoked, emitting, verification, executed, retries, current_step_index, error, i, browser, stream, faults>>

handle_command ==
    /\ ncmds < MaxCmds
    /\ \E sid \in SessionIds, c \in Commands :
         \E p \in (IF c = "skip_step" THEN SkipParams ELSE {NoParams}) :
           Handle(sid, c, p)

\* PAUSE and RESUME only, for a registered session
pause_resume ==
    /\ ncmds < MaxPauseResume
    /\ \E c \in {"pause", "resume"} : Handle("sid", c, NoParams)

\* ---------------------------------------------------------------- _emit_event
sessionVars ==
    <<cfg, state, status, retries, current_step_index, completed_at, error, gate, pc, i,
      browser, stream, faults, ncmds, ret, verification, executed, total_steps, response,
      sessions, pause_events>>

\* what a registered callback does when it is invoked
CallbackKinds == {"returns", "raises"}

\* the events _emit_event is called with
EmitEvents == {Ev("STEP_STARTED", 1), Ev("STEP_COMPLETED", 1), Ev("EXECUTION_PAUSED", 0)}

\* lines 76-77
register_event_callback ==
    /\ emitting.pc = "idle"
    /\ Len(callbacks) < MaxCallbacks
    /\ \E b \in CallbackKinds : callbacks' = Append(callbacks, b)
    /\ UNCHANGED <<sessionVars, events, invoked, emitting>>

EmitBeginPrepend ==
    /\ emitting.pc \in {"idle", "returned"}
    /\ Len(events) < MaxEmits
    /\ \E e \in EmitEvents :
         /\ events' = IF Registered THEN <<e>> \o events ELSE events
         /\ emitting' = [pc |-> "loop", event |-> e]
    /\ invoked' = <<>>
    /\ UNCHANGED <<sessionVars, callbacks>>

\* lines 79-82: _emit_event is called; the event goes to the log of its session
\* when the session is registered
EmitBegin ==
    /\ emitting.pc \in {"idle", "returned"}
    /\ Len(events) < MaxEmits
    /\ \E e \in EmitEvents :
         /\ events' = IF Registered THEN Append(events, e) ELSE events
         /\ emitting' = [pc |-> "loop", event |-> e]
    /\ invoked' = <<>>
    /\ UNCHANGED <<sessionVars, callbacks>>

InvokeCallbackUncaught ==
    /\ emitting.pc = "loop"
    /\ Len(invoked) < Len(callbacks)
    /\ LET k == Len(invoked) + 1 IN
         /\ invoked' = Append(invoked, k)
         /\ emitting' = IF callbacks[k] = "raises"
                        THEN [emitting EXCEPT !.pc = "raised"]
                        ELSE emitting
    /\ UNCHANGED <<sessionVars, events, callbacks>>

\* lines 84-90: the next callback is invoked; what it raises is caught and logged
InvokeCallback ==
    /\ emitting.pc = "loop"
    /\ Len(invoked) < Len(callbacks)
    /\ invoked' = Append(invoked, Len(invoked) + 1)
    /\ UNCHANGED <<sessionVars, events, callbacks, emitting>>

\* line 84: the loop is over, _emit_event returns to its caller
EmitReturn ==
    /\ emitting.pc = "loop"
    /\ Len(invoked) = Len(callbacks)
    /\ emitting' = [emitting EXCEPT !.pc = "returned"]
    /\ UNCHANGED <<sessionVars, events, callbacks, invoked>>

\* ---------------------------------------------------------------- specifications
\* the execution task where every step gets one attempt
SingleAttempts ==
    \/ StartExecution
    \/ AcquireBrowser
    \/ AcquireFails
    \/ VerifyState
    \/ ExecuteAction
    \/ BroadcastDone
    \/ NextIteration
    \/ Cleanup

\* the execution task without the gate wake-up and the recovery procedure
StepLoop ==
    \/ SingleAttempts
    \/ RetryStep

\* what follows a not-ready verdict of the oracle
Recovery ==
    \/ Recover
    \/ ReVerify

ExecutionTask ==
    \/ StepLoop
    \/ Recovery
    \/ WakeFromGate

Next ==
    \/ create_session
    \/ ExecutionTask
    \/ handle_command

Spec == Init /\ [][Next]_vars

\* the execution task alone: no command is ever sent, so the gate stays open
NextLoop ==
    \/ create_session
    \/ StepLoop
    \/ Recovery

SpecLoop == InitLoop /\ [][NextLoop]_vars

\* the execution task alone on an auto-started session of any plan
InitPlans ==
    /\ cfg \in {c \in ConfigsOf(Plans) : c.plan_found /\ c.auto_start}
    /\ InitService

SpecPlans == InitPlans /\ [][NextLoop]_vars

\* the execution task under PAUSE and RESUME commands only, without an oracle
NextPauseResume ==
    \/ create_session
    \/ StepLoop
    \/ WakeFromGate
    \/ pause_resume

\* an auto-started session of a found plan, no oracle key (the default of
\* settings.OPENAI_API_KEY)
InitPauseResume ==
    /\ cfg \in {c \in OpenConfigs : c.plan_found /\ c.auto_start /\ ~c.has_api_key}
    /\ InitService

SpecPauseResume == InitPauseResume /\ [][NextPauseResume]_vars

\* the execution task under all commands, with a plain configuration: no
\* oracle key, no screenshots, no recovery and no retries
NextCommands ==
    \/ create_session
    \/ SingleAttempts
    \/ WakeFromGate
    \/ handle_command

InitCommands ==
    /\ cfg \in {c \in OpenConfigs : /\ ~c.has_api_key
                                     /\ ~c.auto_screenshot
                                     /\ ~c.enable_recovery
                                     /\ c.max_retries_per_step = 0}
    /\ InitService

SpecCommands == InitCommands /\ [][NextCommands]_vars

\* _emit_event on its own: callbacks are registered, then events are emitted
\* for a session that is registered (as create_session leaves it, not started)
\* or not
NextEmit ==
    \/ register_event_callback
    \/ EmitBegin
    \/ InvokeCallback
    \/ EmitReturn

InitEmit ==
    /\ cfg \in {c \in OpenConfigs : c.plan_found /\ ~c.auto_start}
    /\ state = "idle"
    /\ status = [s \in Steps |-> "pending"]
    /\ retries = [s \in Steps |-> 0]
    /\ current_step_index = 1
    /\ completed_at = FALSE
    /\ error = FALSE
    /\ pc \in {"absent", "none"}
    /\ gate = (pc = "none")
    /\ events = IF pc = "none" THEN <<Ev("SESSION_CREATED", 0)>> ELSE <<>>
    /\ i = 0
    /\ browser = "none"
    /\ stream = "none"
    /\ faults = 0
    /\ ncmds = 0
    /\ ret = FALSE
    /\ callbacks = <<>>
    /\ invoked = <<>>
    /\ emitting = NotEmitting
    /\ verification = <<>>
    /\ executed = <<>>
    /\ total_steps = IF pc = "none" THEN NumSteps ELSE 0
    /\ response = IF pc = "none" THEN "success" ELSE "none"
    /\ sessions = NoSessions
    /\ pause_events = NoPauseEvents

SpecEmit == InitEmit /\ [][NextEmit]_vars

\* ---------------------------------------------------------------- two sessions
\* Two sessions served by one AgentService: the registries of lines 62-68 are
\* keyed by session id, every handler looks its session up under the id it is
\* given, and each execution task keeps its own loop variable.  A step attempt
\* is one piece here and succeeds, and commands carry no params; attempts that
\* fail and SKIP_STEP with a step_index are those of the specifications above.

\* everything of the single-session state but the command counter and result
singleVars ==
    <<cfg, state, status, retries, current_step_index, completed_at, error, events, gate, pc, i,
      browser, stream, faults, callbacks, invoked, emitting, verification, executed,
      total_steps, response>>

\* lines 79-82: the event goes to the log of the session its session_id names
EmitTo(ss, k, e) ==
    IF ss[k].registered THEN [ss EXCEPT ![k].events = Append(@, e)] ELSE ss

\* asyncio.Event.clear() on a gate shared by every session
ClearGateShared(k) == [o \in SessionKeys |-> FALSE]

\* line 655: self._pause_events[session_id].clear()
ClearGate(k) == [pause_events EXCEPT ![k] = FALSE]

\* lines 664 and 673: self._pause_events[session_id].set()
OpenGate(k) == [pause_events EXCEPT ![k] = TRUE]

\* asyncio.Event.set(): the task of session k, if blocked in wait(), is made runnable
Woken(ss, k) == IF ss[k].pc = "gate" THEN [ss EXCEPT ![k].pc = "woken"] ELSE ss

\* lines 93-138: create_session registers a session and its gate under a fresh id
CreateSessionOf(k) ==
    /\ ~sessions[k].registered
    /\ \E auto_start \in BOOLEAN :
         sessions' = EmitTo([sessions EXCEPT ![k] =
                                [NoSession EXCEPT !.registered = TRUE,
                                                  !.pc = IF auto_start THEN "created" ELSE "none"]],
                            k, Ev("SESSION_CREATED", 0))
    /\ pause_events' = OpenGate(k)
    /\ UNCHANGED <<singleVars, ncmds, ret>>

\* line 681 for session k, the command carrying no step_index
SkipTargetOf(k) == sessions[k].current_step_index

\* lines 645-691 for session k: what the call returns
ReturnsOf(k, c) ==
    /\ sessions[k].registered
    /\ \/ c \in {"pause", "resume", "stop"}
       \/ c = "skip_step" /\ SkipInRange(SkipTargetOf(k))

\* lines 645-691: one call handle_command(k, c, {})
CommandOf(k, c) ==
    /\ ncmds < MaxCmds
    /\ ncmds' = ncmds + 1
    /\ ret' = ReturnsOf(k, c)
    /\ IF ~ReturnsOf(k, c)
       THEN UNCHANGED <<sessions, pause_events>>
       ELSE CASE c = "pause" ->
                   /\ sessions' = EmitTo([sessions EXCEPT ![k].state = "paused"],
                                         k, Ev("EXECUTION_PAUSED", 0))
                   /\ pause_events' = ClearGate(k)
              [] c = "resume" ->
                   /\ sessions' = EmitTo(Woken([sessions EXCEPT ![k].state = "executing"], k),
                                         k, Ev("EXECUTION_RESUMED", 0))
                   /\ pause_events' = OpenGate(k)
              [] c = "stop" ->
                   /\ sessions' = EmitTo(Woken([sessions EXCEPT ![k].state = "cancelled"], k),
                                         k, Ev("EXECUTION_CANCELLED", 0))
                   /\ pause_events' = OpenGate(k)
              [] c = "skip_step" ->
                   /\ sessions' = EmitTo([sessions EXCEPT
                                             ![k].status[SkipTargetOf(k)] = "skipped"],
                                         k, Ev("STEP_SKIPPED", SkipTargetOf(k)))
                   /\ UNCHANGED pause_events
    /\ UNCHANGED singleVars

\* lines 187-195 for the session record s
AfterLoopOf(s, j, st) ==
    [s EXCEPT !.i = j, !.pc = "done",
              !.state = IF st = "executing" THEN "completed" ELSE st,
              !.events = IF st = "executing"
                         THEN Append(@, Ev("EXECUTION_COMPLETED", 0)) ELSE @]

\* lines 181-182 and 227-240 for the session record s
BeginStepOf(s, j, st) ==
    [s EXCEPT !.i = j, !.current_step_index = j, !.state = st, !.pc = "running",
              !.status[j] = "running",
              !.events = Append(@, Ev("STEP_STARTED", j))]

\* lines 172-182 for the session record s, whose gate is open iff g
LoopTopOf(s, g, j, st) ==
    IF j > NumSteps \/ LoopBreaks(st)
    THEN AfterLoopOf(s, j, st)
    ELSE IF ~g
         THEN [s EXCEPT !.pc = "gate", !.i = j, !.state = st]
         ELSE IF st = "paused"
              THEN AfterLoopOf(s, NumSteps + 1, st)
              ELSE BeginStepOf(s, j, st)

\* lines 141-158: the task of session k starts
TaskStartOf(k) ==
    /\ sessions[k].pc = "created"
    /\ sessions' = EmitTo([sessions EXCEPT ![k].state = "initializing", ![k].pc = "acquiring"],
                          k, Ev("EXECUTION_STARTED", 0))

\* lines 160-182 and 197-206: the browser of session k comes up, or does not
TaskAcquireOf(k) ==
    /\ sessions[k].pc = "acquiring"
    /\ \/ sessions' = [sessions EXCEPT
                          ![k] = LoopTopOf(sessions[k], pause_events[k], 1, "executing")]
       \/ sessions' = EmitTo([sessions EXCEPT ![k].state = "failed", ![k].pc = "done"],
                             k, Ev("EXECUTION_FAILED", 0))

\* lines 315-323: the attempt of the current step of session k succeeds
TaskStepEndOf(k) ==
    /\ sessions[k].pc = "running"
    /\ sessions' = EmitTo([sessions EXCEPT ![k].status[sessions[k].i] = "completed",
                                           ![k].pc = "between"],
                          k, Ev("STEP_COMPLETED", sessions[k].i))

\* lines 172-182: the next iteration of the loop of session k
TaskNextOf(k) ==
    /\ sessions[k].pc = "between"
    /\ sessions' = [sessions EXCEPT
                       ![k] = LoopTopOf(sessions[k], pause_events[k],
                                        sessions[k].i + 1, sessions[k].state)]

\* lines 175-182: the task of session k returns from wait()
TaskWakeOf(k) ==
    /\ sessions[k].pc = "woken"
    /\ sessions' = [sessions EXCEPT
                       ![k] = IF sessions[k].state = "paused"
                              THEN LoopTopOf(sessions[k], pause_events[k],
                                             sessions[k].i + 1, sessions[k].state)
                              ELSE BeginStepOf(sessions[k], sessions[k].i, sessions[k].state)]

\* one piece of the execution task of session k
TaskOf(k) ==
    /\ \/ TaskStartOf(k)
       \/ TaskAcquireOf(k)
       \/ TaskStepEndOf(k)
       \/ TaskNextOf(k)
       \/ TaskWakeOf(k)
    /\ UNCHANGED <<pause_events, singleVars, ncmds, ret>>

CommandsOf(k) == \E c \in Commands : CommandOf(k, c)

NextSessions ==
    \/ \E k \in SessionKeys : CreateSessionOf(k)
    \/ \E k \in SessionKeys : CommandsOf(k)
    \/ \E k \in SessionKeys : TaskOf(k)

InitSessions ==
    /\ cfg = CHOOSE c \in OpenConfigs : c.plan_found /\ c.auto_start
    /\ InitService

SpecSessions == InitSessions /\ [][NextSessions]_vars

\* ---------------------------------------------------------------- properties
\* a STOP command has been handled for the session
Stopped == HasEv(events, "EXECUTION_CANCELLED")

\* the loop starts step s in this step of the run
Starts(s) == status[s] = "pending" /\ status'[s] = "running"

\* the execution task, not a command, takes this step of the run
TaskStep == ncmds' = ncmds /\ pc # "absent"

\* index of the last event of one of the types ts in the log, 0 if there is none
LastEv(log, ts) ==
    LET ks == {k \in 1..Len(log) : log[k].type \in ts}
    IN  IF ks = {} THEN 0 ELSE CHOOSE k \in ks : \A j \in ks : j <= k

StepEvents == {"STEP_STARTED", "STEP_COMPLETED", "STEP_FAILED", "STEP_RETRYING"}

\* the last PAUSE was handled while an attempt of a step was running, and no
\* RESUME has been handled since
PausedInStep ==
    LET p == LastEv(events, {"EXECUTION_PAUSED"})
        before == SubSeq(events, 1, p)
        l == LastEv(before, StepEvents)
    IN  /\ p > 0
        /\ l > 0
        /\ before[l].type = "STEP_STARTED"
        /\ LastEv(events, {"EXECUTION_RESUMED"}) < p

\* STEP_SKIPPED for step s was emitted before any attempt of s: s was skipped
\* while pending
SkippedWhilePending(s) ==
    \E k \in 1..Len(events) :
        /\ events[k] = Ev("STEP_SKIPPED", s)
        /\ \A j \in 1..(k - 1) : events[j] # Ev("STEP_STARTED", s)

\* C1: once a STOP command has been handled, no step of the session goes from
\* pending to running any more, wherever the loop was when STOP arrived
\* (blocked at the pause gate included).
C1_NoStepStartsAfterStop ==
    [][Stopped => \A s \in Steps : ~Starts(s)]_vars

\* C2: after a STOP the session ends cancelled: when the execution task has
\* finished the state is cancelled, and no step of the execution task changes
\* a cancelled state.
C2_StopEndsCancelled ==
    [][((state = "cancelled" /\ TaskStep) => state' = "cancelled")
       /\ ((Stopped' /\ pc' = "done") => state' = "cancelled")]_vars

\* C3: step s leaves pending only after step s-1 is completed, failed or
\* skipped, and at most one step is running or retrying at any time.
C3_Sequential ==
    [][(\A s \in Steps \ {1} :
            (status[s] = "pending" /\ status'[s] # "pending")
                => status[s - 1] \in TerminalStepStatus)
       /\ Cardinality({s \in Steps : status'[s] \in {"running", "retrying"}}) <= 1]_vars

\* C4: after a PAUSE handled while a step is running, no further step is
\* started until a RESUME has been handled.
C4_NoStartWhilePaused ==
    [][PausedInStep => \A s \in Steps : ~Starts(s)]_vars

\* C5: completed, failed and cancelled are absorbing: no command and no step
\* of the execution task changes a terminal session state.
C5_TerminalAbsorbing ==
    [][(state \in TerminalStates) => (state' = state)]_vars

\* C6: the retries counter of every step record is at most the configured
\* max_retries_per_step.
C6_RetriesBounded ==
    \A s \in Steps : retries[s] <= cfg.max_retries_per_step

\* a step has used up all its retries and is failed
C6_Witness ==
    \E s \in Steps :
        /\ cfg.max_retries_per_step >= 1
        /\ retries[s] = cfg.max_retries_per_step
        /\ status[s] = "failed"

\* C7: with recovery enabled a step is attempted at most max_retries_per_step + 1
\* times; a step that is marked failed has been attempted exactly that many
\* times with max_retries_per_step retries, has exactly one STEP_FAILED event,
\* and is not in an attempt any more (so it is never attempted again).
C7_FailedAfterAllRetries ==
    cfg.enable_recovery =>
        \A s \in Steps :
            /\ CountEv(events, "STEP_STARTED", s) <= cfg.max_retries_per_step + 1
            /\ CountEv(events, "STEP_FAILED", s) <= 1
            /\ CountEv(events, "STEP_FAILED", s) = 1 =>
                  /\ CountEv(events, "STEP_STARTED", s) = cfg.max_retries_per_step + 1
                  /\ CountEv(events, "STEP_RETRYING", s) = cfg.max_retries_per_step
                  /\ retries[s] = cfg.max_retries_per_step
                  /\ (i = s => pc \in {"between", "cleanup", "done"})

\* with recovery enabled, a step failed after at least one retry while a later
\* step has already been started
C7_Witness ==
    /\ cfg.enable_recovery
    /\ cfg.max_retries_per_step >= 1
    /\ \E s \in Steps :
          /\ CountEv(events, "STEP_FAILED", s) = 1
          /\ CountEv(events, "STEP_STARTED", s) = cfg.max_retries_per_step + 1
          /\ i > s

\* the loop ends in this step of the run (lines 187-195 are reached)
LoopEnds == pc # "cleanup" /\ pc' = "cleanup"

\* C8: a step failed after exhausting its retries is not fatal: unless a STOP
\* is handled the session state does not become failed, and when the loop ends
\* the session is completed, the step is still recorded failed and the next
\* plan step has been started.
C8_FailedStepNotFatal ==
    [][\A s \in Steps :
          (CountEv(events', "STEP_FAILED", s) >= 1 /\ ~Stopped') =>
              (/\ state' # "failed"
               /\ LoopEnds =>
                     /\ state' = "completed"
                     /\ status'[s] = "failed"
                     /\ s < NumSteps => CountEv(events', "STEP_STARTED", s + 1) >= 1)]_vars

\* C9: no command changes the record of a completed step; SKIP_STEP on it in
\* particular leaves it completed.
C9_SkipKeepsCompleted ==
    [][\A s \in Steps :
          (status[s] = "completed" /\ ncmds' # ncmds) => status'[s] = "completed"]_vars

\* C10: SKIP_STEP on a pending step returns true, and a step skipped while
\* pending stays skipped and is never started by the loop.
C10_SkippedStaysSkipped ==
    \A s \in Steps :
        /\ (Registered /\ status[s] = "pending")
              => Returns("sid", "skip_step", [given |-> TRUE, step_index |-> s])
        /\ SkippedWhilePending(s)
              => (status[s] = "skipped" /\ CountEv(events, "STEP_STARTED", s) = 0)

\* every PAUSE handled so far has been followed by a RESUME
EveryPauseResumed ==
    LastEv(events, {"EXECUTION_PAUSED"}) <= LastEv(events, {"EXECUTION_RESUMED"})

\* C11: a started execution that gets no STOP and a RESUME after every PAUSE
\* reaches completed and emits EXECUTION_COMPLETED, whenever the commands
\* arrive.  The session becomes completed only where EXECUTION_COMPLETED is
\* emitted (line 187-195), and only the execution task does it: once the task
\* has returned with the browser acquired and every PAUSE resumed, the event
\* is in the log.
C11_CompletesUnderPauseResume ==
    (pc = "done" /\ browser # "none" /\ ~Stopped /\ EveryPauseResumed)
        => HasEv(events, "EXECUTION_COMPLETED")

\* the events that report a terminal per-step state
TerminalStepEvents == {"STEP_COMPLETED", "STEP_FAILED", "STEP_SKIPPED"}

\* the event at position k of the log directly follows, other milestone
\* notifications aside, the event that reports step s terminal
FollowsTerminalEvent(k, s) ==
    LET js == {j \in 1..(k - 1) : events[j].type # "FEATURE_MILESTONE"}
    IN  /\ js # {}
        /\ LET j == CHOOSE x \in js : \A y \in js : y <= x
           IN  events[j].type \in TerminalStepEvents /\ events[j].ref = s

\* C12: FEATURE_MILESTONE of every milestone is emitted exactly once in a run,
\* immediately after the step of its end_step reaches a terminal per-step
\* state: never more than once, never before that step is terminal, and it is
\* in the log as soon as that step is terminal.
C12_MilestoneExactlyOnce ==
    \A m \in MilestoneIds :
        /\ CountEv(events, "FEATURE_MILESTONE", m) <= 1
        /\ \A k \in 1..Len(events) :
              events[k] = Ev("FEATURE_MILESTONE", m) => FollowsTerminalEvent(k, MilestoneEnd[m])
        /\ status[MilestoneEnd[m]] \in TerminalStepStatus
              => CountEv(events, "FEATURE_MILESTONE", m) = 1

\* C13: verification fails open: when the oracle raises on every call no step
\* is blocked or failed because of verification (no recovery is started, no
\* step is retried or failed while every browser call succeeds), and a plan
\* whose actions all succeed ends completed with every step completed.
C13_VerificationFailsOpen ==
    cfg.oracle_down =>
        /\ pc \notin {"recovering", "reverify"}
        /\ ~HasEv(events, "RECOVERY_STARTED")
        /\ cfg.browser_ok =>
              /\ \A s \in Steps :
                    /\ status[s] \notin {"failed", "retrying"}
                    /\ CountEv(events, "STEP_FAILED", s) = 0
                    /\ CountEv(events, "STEP_RETRYING", s) = 0
              /\ pc = "done" =>
                    /\ state = "completed"
                    /\ \A s \in Steps : status[s] = "completed"

\* a command is handled in this step of the run
CommandStep == ncmds' # ncmds

\* C14: a command handled while the session is completed, failed or cancelled
\* returns false and changes nothing: state, completed-at, pause gate, step
\* records and event log stay as they are.
C14_TerminalSessionRejects ==
    [][(CommandStep /\ state \in TerminalStates) =>
          (/\ ret' = FALSE
           /\ UNCHANGED <<state, completed_at, gate, status, retries, events>>)]_vars

\* C15: a command whose session id is not in the registry returns false,
\* emits no event and changes no registered session.
C15_UnknownSessionRejected ==
    [][CommandStep =>
          \A sid \in {x \in SessionIds : ~Known(x)}, c \in Commands :
              \A p \in (IF c = "skip_step" THEN SkipParams ELSE {NoParams}) :
                  Handle(sid, c, p) =>
                      (/\ ret' = FALSE
                       /\ UNCHANGED <<state, status, retries, current_step_index,
                                      completed_at, error, events, gate, pc, i, browser,
                                      stream>>)]_vars

\* a command has been handled while no session was registered
C15_Witness == pc = "absent" /\ ncmds > 0 /\ ret = FALSE

\* C16: an acquired browser handle is released exactly once, after the step
\* loop has ended and whatever the outcome: when the execution task has
\* returned the handle is released, it is released only by the cleanup that
\* follows the loop, it stays released, and no step runs after the release.
C16_BrowserReleasedOnce ==
    [][/\ (pc' = "done" /\ browser' # "none") => browser' = "released"
       /\ (browser # "released" /\ browser' = "released") => pc = "cleanup"
       /\ browser = "released" => (browser' = "released" /\ pc' = "done")]_vars

\* the execution task has returned without a browser handle: acquiring it failed
AcquisitionFailed == pc = "done" /\ browser = "none"

C18_CallbackErrorsSwallowed ==
    /\ emitting.pc # "raised"
    /\ emitting.pc \in {"loop", "returned"} =>
          (Registered => (events # <<>> /\ events[Len(events)] = emitting.event))
    /\ emitting.pc = "returned" => invoked = [k \in 1..Len(callbacks) |-> k]
    /\ state = "idle"
    /\ \A s \in Steps : status[s] = "pending"
    /\ i = 0

\* _emit_event has returned after a callback raised and a later one was invoked
C18_Witness ==
    /\ emitting.pc = "returned"
    /\ Registered
    /\ \E k \in 1..Len(callbacks) : callbacks[k] = "raises" /\ k < Len(invoked)

\* C19: handling STOP changes no step record, and a step that is completed
\* when STOP is handled keeps its status and retry count at STOP and in every
\* later step of the run.
C19_StopKeepsStepRecords ==
    [][Stopped' =>
          /\ (~Stopped => (status' = status /\ retries' = retries))
          /\ \A s \in Steps :
                status[s] = "completed" =>
                    (status'[s] = "completed" /\ retries'[s] = retries[s])]_vars

\* the events of the execution and of its steps
LifecycleTypes ==
    {"EXECUTION_STARTED", "EXECUTION_COMPLETED", "EXECUTION_FAILED", "EXECUTION_CANCELLED",
     "EXECUTION_PAUSED", "EXECUTION_RESUMED", "STEP_STARTED", "STEP_COMPLETED",
     "STEP_FAILED", "STEP_RETRYING", "STEP_SKIPPED"}

IsLifecycle(e) == e.type \in LifecycleTypes

RECURSIVE StartedCompleted(_)
\* STEP_STARTED then STEP_COMPLETED for step s and every step after it, in turn
StartedCompleted(s) ==
    IF s > NumSteps THEN <<>>
    ELSE <<Ev("STEP_STARTED", s), Ev("STEP_COMPLETED", s)>> \o StartedCompleted(s + 1)

\* C20: a plan of steps navigate, click, wait (its first NumSteps steps here)
\* whose browser calls all succeed, with no oracle configured and no command
\* sent, ends completed with every step record completed, and the lifecycle
\* events of the session are exactly EXECUTION_STARTED, then STEP_STARTED and
\* STEP_COMPLETED for each step in turn, then EXECUTION_COMPLETED.
C20_HappyPathEvents ==
    (cfg.browser_ok /\ ~cfg.has_api_key /\ pc = "done") =>
        /\ state = "completed"
        /\ \A s \in Steps : status[s] = "completed"
        /\ SelectSeq(events, IsLifecycle)
              = <<Ev("EXECUTION_STARTED", 0)>> \o StartedCompleted(1)
                    \o <<Ev("EXECUTION_COMPLETED", 0)>>

\* C21: whenever the session state is completed, every step record is
\* completed, failed or skipped: none is left pending, running or retrying.
C21_CompletedMeansAllTerminal ==
    state = "completed" => \A s \in Steps : status[s] \in TerminalStepStatus

\* C22: under every interleaving of PAUSE and RESUME with the loop the steps
\* are started in plan order and none is passed over: whenever a step is
\* started, every step before it in the plan has been started already.
C22_NoStepPassedOver ==
    [][\A s \in Steps :
          Starts(s) => \A r \in 1..(s - 1) : CountEv(events, "STEP_STARTED", r) >= 1]_vars

\* the changes of a step record's status the state machine allows
AllowedStatusChanges ==
    {<<"pending", "running">>, <<"running", "completed">>, <<"running", "retrying">>,
     <<"retrying", "running">>, <<"running", "failed">>, <<"retrying", "failed">>,
     <<"pending", "skipped">>, <<"running", "skipped">>}

\* C23: every change of a step record's status, by the loop or by a command,
\* is pending to running, running to completed, running to retrying, retrying
\* to running, running or retrying to failed, or pending or running to
\* skipped; completed, failed and skipped are never left.
C23_StatusStateMachine ==
    [][\A s \in Steps :
          status'[s] # status[s] => <<status[s], status'[s]>> \in AllowedStatusChanges]_vars

\* the last verdict verify_state returned in the current attempt
LastVerdict == verification[Len(verification)]

\* a browser action is executed in this step of the run
ActionExecuted == Len(executed') > Len(executed)

\* C24: in an attempt where verification applies, the browser action is
\* executed only if the last verdict obtained in that attempt (the first one,
\* or the one after a recovery) was ready; a not-ready verdict with recovery
\* action none ends the attempt in the failure branch (retrying or failed)
\* with no recovery and no action.
C24_ActionOnlyWhenReady ==
    [][/\ (ActionExecuted /\ verification # <<>>) => LastVerdict = "ready"
       /\ (verification' = <<"not_ready">> /\ verification = <<>>)
             => /\ status'[i] \in {"retrying", "failed"}
                /\ pc' \in {"backoff", "between"}
                /\ executed' = <<>>
                /\ events'[Len(events')].type \in {"STEP_RETRYING", "STEP_FAILED"}]_vars
\* the events emitted since the current attempt began
AttemptEvents == SubSeq(events, LastEv(events, {"STEP_STARTED"}) + 1, Len(events))

\* number of recovery procedures started in the current attempt
RecoveriesInAttempt ==
    Cardinality({k \in 1..Len(AttemptEvents) : AttemptEvents[k].type = "RECOVERY_STARTED"})

\* C25: in an attempt whose first verdict is not ready with a concrete
\* recovery action exactly one recovery procedure is run; when it succeeds,
\* verification is run once more (two verdicts in the attempt) before the
\* attempt goes on; when it fails, the attempt goes to the failure branch at
\* once with no second verdict.
C25_OneRecoveryOneReVerification ==
    [][/\ (verification' # <<>> /\ verification'[1] = "not_ready_recover")
             => RecoveriesInAttempt' = 1
       /\ (pc = "reverify" /\ pc' # "reverify") => Len(verification') = 2
       /\ (pc = "recovering" /\ pc' \notin {"recovering", "reverify"})
             => /\ status'[i] \in {"retrying", "failed"}
                /\ Len(verification') = 1]_vars
\* the attempt of step i goes past the point of the action (line 298) in this
\* step of the run
PassesAction == pc = "acting" /\ pc' # "acting"

\* C26: in every attempt of a step that is not narrate, wait or screenshot,
\* with recovery enabled and an oracle key set, a verdict of the oracle on a
\* new screenshot has been obtained when the attempt reaches the action,
\* whatever auto_screenshot is; for narrate, wait and screenshot steps the
\* oracle is never consulted, so every verdict of their attempts is ready.
C26_OracleConsultedBeforeAction ==
    [][/\ (PassesAction /\ cfg.enable_recovery /\ cfg.has_api_key
                        /\ StepTypeOf(i) \notin NoVerifyTypes)
             => verification # <<>>
       /\ (i' \in Steps /\ StepTypeOf(i') \in NoVerifyTypes)
             => \A k \in 1..Len(verification') : verification'[k] = "ready"]_vars
\* C27: with enable_recovery false no step is ever retried: a failing step
\* goes from running to failed after its only attempt, its retries stay 0 and
\* no STEP_RETRYING is emitted; no verification and no recovery runs.
C27_NoRecoveryNoRetry ==
    ~cfg.enable_recovery =>
        /\ \A s \in Steps : /\ retries[s] = 0
                            /\ status[s] # "retrying"
                            /\ CountEv(events, "STEP_STARTED", s) <= 1
                            /\ CountEv(events, "STEP_FAILED", s) = 1 => status[s] = "failed"
        /\ ~HasEv(events, "STEP_RETRYING")
        /\ ~HasEv(events, "STATE_VERIFIED")
        /\ ~HasEv(events, "RECOVERY_STARTED")
        /\ verification = <<>>

\* a step has failed with recovery disabled although retries are allowed
C27_Witness ==
    /\ ~cfg.enable_recovery
    /\ cfg.max_retries_per_step > 0
    /\ \E s \in Steps : status[s] = "failed" /\ CountEv(events, "STEP_FAILED", s) = 1
\* the events the loop emits about a step
LoopEventTypes ==
    {"STEP_STARTED", "STEP_COMPLETED", "STEP_FAILED", "STEP_RETRYING", "STATE_VERIFIED",
     "RECOVERY_STARTED", "RECOVERY_COMPLETED"}

\* event e is emitted by the loop for step s
IsLoopEventOf(e, s) ==
    \/ e.type \in LoopEventTypes /\ e.ref = s
    \/ e.type = "FEATURE_MILESTONE" /\ MilestoneEnd[e.ref] = s

\* an event of type t about r comes before position k of the log
Before(log, k, t, r) == \E j \in 1..(k - 1) : log[j] = Ev(t, r)

\* the event at position k of the log is in order with the events before it
InOrder(log, k) ==
    LET e == log[k] IN
    /\ e.type \in {"STEP_COMPLETED", "STEP_FAILED"} => Before(log, k, "STEP_STARTED", e.ref)
    /\ e.type = "FEATURE_MILESTONE"
         => /\ Before(log, k, "STEP_COMPLETED", MilestoneEnd[e.ref])
            /\ ~Before(log, k, "STEP_STARTED", MilestoneEnd[e.ref] + 1)
    /\ \A s \in Steps : IsLoopEventOf(e, s) => ~Before(log, k, "STEP_STARTED", s + 1)
    /\ (\E s \in Steps : IsLoopEventOf(e, s))
         => /\ Before(log, k, "EXECUTION_STARTED", 0)
            /\ ~Before(log, k, "EXECUTION_COMPLETED", 0)

\* C28: in the event log every STEP_COMPLETED and STEP_FAILED of a step comes
\* after a STEP_STARTED of that step; every FEATURE_MILESTONE comes after the
\* STEP_COMPLETED of the step that closes it and before the STEP_STARTED of
\* the next step; every loop event of step s comes before STEP_STARTED of step
\* s + 1; EXECUTION_STARTED comes before and EXECUTION_COMPLETED after every
\* step event.  The log only grows at its end, so it is enough that every
\* event is in order with the log it is appended to.
C28_EventOrder ==
    [][/\ Len(events') >= Len(events)
       /\ SubSeq(events', 1, Len(events)) = events
       /\ \A k \in (Len(events) + 1)..Len(events') : InOrder(events', k)]_vars

\* a run has ended in which a milestone was closed by the first step, the
\* second step started and a step failed
C28_Witness ==
    /\ HasEv(events, "EXECUTION_COMPLETED")
    /\ CountEv(events, "FEATURE_MILESTONE", 1) >= 1
    /\ CountEv(events, "STEP_STARTED", 2) >= 1
    /\ HasEv(events, "STEP_FAILED")
\* C29: completed_at is set exactly when the session is in a terminal state:
\* in every reachable state it is non-null if and only if the state is
\* completed, failed or cancelled.
C29_CompletedAtIffTerminal ==
    completed_at <=> state \in TerminalStates
\* this step of the run appends exactly one event of type t about r
EmitsOne(t, r) == CountEv(events', t, r) = CountEv(events, t, r) + 1

\* C30: narrate and assert steps never cause a browser action, yet go through
\* the lifecycle of any step: started from pending to running with
\* STEP_STARTED, and, when no call of the browser service fails, completed
\* with STEP_COMPLETED and the milestones they close notified; an attempt of
\* any other step type that reaches the action executes exactly one action,
\* the one mapped from its type, with the target as URL for navigate and as
\* selector otherwise.
C30_NarrateAssertLifecycle ==
    [][/\ (i' \in Steps /\ StepTypeOf(i') \in {"narrate", "assert"}) => executed' = <<>>
       /\ \A s \in Steps :
             (Starts(s) /\ StepTypeOf(s) \in {"narrate", "assert"})
                => EmitsOne("STEP_STARTED", s)
       /\ (PassesAction /\ StepTypeOf(i) \in {"narrate", "assert"}
                        /\ (cfg.browser_ok \/ ~cfg.auto_screenshot))
             => /\ status[i] = "running"
                /\ status'[i] = "completed"
                /\ EmitsOne("STEP_COMPLETED", i)
                /\ \A m \in MilestoneIds :
                      MilestoneEnd[m] = i => EmitsOne("FEATURE_MILESTONE", m)
       /\ (PassesAction /\ StepTypeOf(i) \notin {"narrate", "assert"})
             => executed' = <<[action_type |-> StepTypeOf(i),
                               target_as |-> IF StepTypeOf(i) = "navigate"
                                             THEN "url" ELSE "selector"]>>]_vars
\* a registered callback is invoked in this step of the run
CallbackInvoked == Len(invoked') > Len(invoked)

\* C32: the event log is append-only: every step of _emit_event, the only
\* writer of the log, leaves the entries it holds and their order as they are
\* and adds entries at its end only; and the emitted event is already the last
\* entry of its session's log whenever a callback is invoked for it.
C32_LogAppendOnly ==
    [][/\ Len(events') >= Len(events)
       /\ SubSeq(events', 1, Len(events)) = events
       /\ (CallbackInvoked /\ Registered)
             => (events # <<>> /\ events[Len(events)] = emitting.event)]_vars

\* a callback has been invoked for an event emitted on a log that held entries
C32_Witness ==
    /\ Registered
    /\ emitting.pc = "loop"
    /\ invoked # <<>>
    /\ Len(events) >= 2
\* create_session succeeds in this step of the run
SessionCreated == response = "none" /\ response' = "success"

\* the list of step records holds one record per plan step, in plan order
OneRecordPerStep ==
    /\ DOMAIN status = 1..NumSteps
    /\ DOMAIN retries = 1..NumSteps
    /\ total_steps = NumSteps

\* C33: a successful create_session leaves one step record per plan step, in
\* plan order, all pending with retries 0, total_steps equal to the number of
\* plan steps, the pause gate open and SESSION_CREATED the first event of the
\* log; afterwards the list of records is never resized or reordered (and
\* SESSION_CREATED stays the first event).
C33_RecordsPrePopulated ==
    [][/\ SessionCreated
            => /\ \A s \in Steps : status'[s] = "pending" /\ retries'[s] = 0
               /\ gate'
               /\ events' = <<Ev("SESSION_CREATED", 0)>>
       /\ response' = "success"
            => /\ OneRecordPerStep'
               /\ events'[1] = Ev("SESSION_CREATED", 0)]_vars

\* commands and the loop have changed the records of a created session
C33_Witness ==
    /\ response = "success"
    /\ \E s \in Steps : status[s] = "skipped"
    /\ \E s \in Steps : status[s] \in {"completed", "failed"}

\* C34: when the plan named in the request is missing, setup fails fatally:
\* the session goes straight to failed and no step runs.
C34_MissingPlanFails ==
    response = "error" =>
        /\ Registered
        /\ state = "failed"
        /\ \A s \in Steps : status[s] = "pending"
        /\ ~HasEv(events, "STEP_STARTED")
\* C35: once STEP_COMPLETED of a step has been emitted, the action of that
\* step is never executed again and its record is never moved to retrying or
\* failed, whatever the work done after completion raises.
C35_CompletedStepNotRerun ==
    [][/\ \A s \in Steps :
             CountEv(events', "STEP_COMPLETED", s) >= 1
                => status'[s] \notin {"retrying", "failed"}
       /\ ActionExecuted => CountEv(events, "STEP_COMPLETED", i) = 0]_vars
\* C36: for a created session that is not terminal the pause gate is closed
\* exactly when the state is paused (PAUSE sets paused and closes the gate
\* together, RESUME sets executing and opens it together), and the execution
\* task never changes the state of a session whose gate is closed.
C36_GateClosedIffPaused ==
    [][/\ (Registered' /\ state' \notin TerminalStates)
             => (~gate' <=> state' = "paused")
       /\ (TaskStep /\ ~gate) => state' = state]_vars
\* C37: no step of a session created with auto_start false is ever executed,
\* whatever commands are sent: the START command returns false and changes
\* nothing, the execution task is never created, no browser handle is
\* acquired and no step leaves pending through the loop (only SKIP_STEP
\* changes a record).
C37_NoAutoStartNeverRuns ==
    [][~cfg.auto_start =>
          /\ pc' \in {"absent", "none"}
          /\ browser' = "none"
          /\ \A s \in Steps : ~Starts(s) /\ status'[s] \in {"pending", "skipped"}
          /\ ~HasEv(events', "EXECUTION_STARTED")
          /\ ~HasEv(events', "STEP_STARTED")
          /\ (CommandStep /\ Handle("sid", "start", NoParams))
                => /\ ret' = FALSE
                   /\ UNCHANGED <<state, status, retries, events, gate, pc, completed_at>>]_vars

\* commands have been handled for a session created without auto_start: a
\* RESUME was accepted and the last command was rejected
C37_Witness ==
    /\ ~cfg.auto_start
    /\ Registered
    /\ HasEv(events, "EXECUTION_RESUMED")
    /\ ncmds >= 2
    /\ ret = FALSE
\* this step of the run leaves the session as it is
SessionUntouched == UNCHANGED <<state, status, retries, events, gate, pc, completed_at>>

\* params of SKIP_STEP whose step_index names no step record
SkipParamsOutOfRange == {p \in SkipParams : p.given /\ p.step_index \notin Steps}

\* C38: SKIP_STEP with a step index that names no step record, START and
\* RETRY_STEP return false, emit no event and leave the session state, the step
\* records and the pause gate unchanged; SKIP_STEP without an index skips the
\* step at current_step_index (and no other).
C38_RejectedCommands ==
    [][CommandStep =>
          /\ \A c \in {"start", "retry_step"} :
                Handle("sid", c, NoParams) => (ret' = FALSE /\ SessionUntouched)
          /\ \A p \in SkipParamsOutOfRange :
                Handle("sid", "skip_step", p) => (ret' = FALSE /\ SessionUntouched)
          /\ (Registered /\ Handle("sid", "skip_step", NoParams))
                => /\ ret' = TRUE
                   /\ status'[current_step_index] = "skipped"
                   /\ \A s \in Steps \ {current_step_index} : status'[s] = status[s]
                   /\ events' = Append(events, Ev("STEP_SKIPPED", current_step_index))]_vars

\* a SKIP_STEP has been accepted while the loop was at step 2, and the last
\* command was rejected
C38_Witness ==
    /\ Registered
    /\ current_step_index = 2
    /\ status[2] = "skipped"
    /\ ncmds >= 2
    /\ ret = FALSE

\* a step of the service on behalf of session k: its creation, a command
\* handled for it, or a piece of its execution task
ActsFor(k) == CreateSessionOf(k) \/ CommandsOf(k) \/ TaskOf(k)

\* C31: sessions are independent: a command handled for session k, or a piece
\* of the execution task of session k, changes neither the state, the step
\* records, the event log nor the pause gate of any other session, wherever
\* the two sessions' tasks and commands interleave
C31_SessionsIndependent ==
    [][\A k \in SessionKeys :
          ActsFor(k) => \A o \in SessionKeys \ {k} :
                           /\ sessions'[o] = sessions[o]
                           /\ pause_events'[o] = pause_events[o]]_vars

\* one session sits paused at its gate in the middle of its plan while the other
\* has been created later, has run to completion and has had a step skipped
C31_Witness ==
    /\ sessions["a"].state = "paused" /\ sessions["a"].pc = "gate" /\ ~pause_events["a"]
    /\ sessions["a"].status[1] = "completed"
    /\ sessions["b"].state = "completed" /\ pause_events["b"]
    /\ \E s \in Steps : sessions["b"].status[s] = "skipped"

====
